---------------------------- MODULE Spec2Model ----------------------------
(***************************************************************************)
(* Model of sendmail.py: a transcript is parsed by substring checks into   *)
(* a call descriptor, the descriptor is validated against the registry     *)
(* `functions`, the registered callable sendNotification is invoked with   *)
(* the descriptor's parameters as keyword arguments, it performs one HTTP  *)
(* POST and returns the parsed JSON body, and the script prints it.        *)
(*                                                                         *)
(* Python strings the code inspects character by character (the            *)
(* transcript) are sequences of one-character strings.  Strings the code   *)
(* only passes along (names, messages, bodies) are TLA+ strings.           *)
(***************************************************************************)
EXTENDS Naturals, Sequences, FiniteSets

VARIABLES
    convo,      \* the transcript handed to parse_conversation
    functions,  \* the registry: function name -> callable
    extracted,  \* the script's global `extracted`: a descriptor or None
    results,    \* return values of direct parse_conversation calls, in order
    pc,         \* the statement of the script that runs next
    calls,      \* every invocation of a registry callable: the callable, its
                \* bound arguments and, once it has returned, what it returned
    posts,      \* every requests.post issued: its url and its json= payload
    replies,    \* every response the network returned to a requests.post
    result,     \* the script's global `result`
    stdout,     \* the values printed, in order
    error       \* the exception that ended the run, or NoError

vars == <<convo, functions, extracted, results, pc, calls, posts, replies,
          result, stdout, error>>

---------------------------------------------------------------------------
(* Bounds of the model *)

\* transcripts are built from at most MaxFrags fragments
MaxFrags == 3
\* parse_conversation is called at most MaxCalls times on one transcript
MaxCalls == 2

---------------------------------------------------------------------------
(* Values *)

\* Python's None
None == [tag |-> "None"]

\* no exception has been raised
NoError == [type |-> "NoError", msg |-> ""]

API_URL == "https://api.rester.example/notify"

\* the exception of line 40
ValueError == [type |-> "ValueError", msg |-> "Invalid function or parsing failed"]

\* requests.post raised (no connection, DNS failure, ...): line 10, uncaught
ConnectionError == [type |-> "ConnectionError", msg |-> ""]

\* response.json() raised on a body that is not JSON: line 11, uncaught
JSONDecodeError == [type |-> "JSONDecodeError", msg |-> ""]

\* the module-level registry of line 13
Registry == [n \in {"sendNotification"} |-> "sendNotification"]

\* the module-level transcript of lines 16-20
conversation ==
    <<"\n">>
    \o <<"H", "u", "m", "a", "n", ":", " ", "N", "o", "t", "i", "f", "y", " ",
         "t", "h", "e", " ", "t", "e", "a", "m", " ", "a", "b", "o", "u", "t",
         " ", "t", "h", "e", " ", "u", "r", "g", "e", "n", "t", " ", "m", "e",
         "e", "t", "i", "n", "g", " ", "t", "o", "m", "o", "r", "r", "o", "w",
         ".", "\n">>
    \o <<"B", "o", "t", ":", " ", "W", "h", "i", "c", "h", " ", "t", "e", "a",
         "m", "?", "\n">>
    \o <<"H", "u", "m", "a", "n", ":", " ", "D", "e", "v", "O", "p", "s", ",",
         " ", "a", "t", " ", "1", "0", " ", "A", "M", ".", "\n">>

---------------------------------------------------------------------------
(* str.lower() and the `in` operator on strings *)

UpperLetters ==
    <<"A", "B", "C", "D", "E", "F", "G", "H", "I", "J", "K", "L", "M",
      "N", "O", "P", "Q", "R", "S", "T", "U", "V", "W", "X", "Y", "Z">>

LowerLetters ==
    <<"a", "b", "c", "d", "e", "f", "g", "h", "i", "j", "k", "l", "m",
      "n", "o", "p", "q", "r", "s", "t", "u", "v", "w", "x", "y", "z">>

\* one character lowered: an upper-case letter becomes its lower-case letter
lower_char(c) ==
    IF \E i \in 1..Len(UpperLetters) : UpperLetters[i] = c
    THEN LowerLetters[CHOOSE i \in 1..Len(UpperLetters) : UpperLetters[i] = c]
    ELSE c

\* s.lower()
lower(s) == [i \in 1..Len(s) |-> lower_char(s[i])]

\* sub in s
Contains(sub, s) ==
    \E i \in 1..(Len(s) + 1) :
        /\ i + Len(sub) - 1 <= Len(s)
        /\ SubSeq(s, i, i + Len(sub) - 1) = sub

\* the literals "notify" and "DevOps" of line 25
notify == <<"n", "o", "t", "i", "f", "y">>

DevOps == <<"D", "e", "v", "O", "p", "s">>

---------------------------------------------------------------------------
(* parse_conversation *)

\* the template of line 26, split at its {time} field
template == <<"Urgent: Meeting at ", "{time}", " tomorrow">>

\* RECURSIVE concatenation of the formatted pieces
RECURSIVE Join(_)
Join(parts) ==
    IF parts = <<>> THEN "" ELSE Head(parts) \o Join(Tail(parts))

\* fault: the template is used without .format, its field left in place
format_Raw(tpl, t) == Join(tpl)

\* template.format(time=t): the {time} field is replaced by t
format(tpl, t) ==
    Join([i \in 1..Len(tpl) |-> IF tpl[i] = "{time}" THEN t ELSE tpl[i]])

\* fault: both tokens are looked up in the lowered transcript
parse_conversation_LowerBoth(c) ==
    IF Contains(notify, lower(c)) /\ Contains(lower(DevOps), lower(c))
    THEN [functionName |-> "sendNotification",
          parameters |-> [recipient |-> "DevOps",
                          message |-> format(template, "10 AM"),
                          channel |-> "email"]]
    ELSE None

\* fault: .lower() is left out, "notify" is looked up case-sensitively
parse_conversation_CaseSensitive(c) ==
    IF Contains(notify, c) /\ Contains(DevOps, c)
    THEN [functionName |-> "sendNotification",
          parameters |-> [recipient |-> "DevOps",
                          message |-> format(template, "10 AM"),
                          channel |-> "email"]]
    ELSE None

\* lines 23-35
parse_conversation(c) ==
    IF Contains(notify, lower(c)) /\ Contains(DevOps, c)
    THEN [functionName |-> "sendNotification",
          parameters |-> [recipient |-> "DevOps",
                          message |-> format(template, "10 AM"),
                          channel |-> "email"]]
    ELSE None

---------------------------------------------------------------------------
(* sendNotification and the network *)

\* binding of **parameters to sendNotification(recipient, message, channel="email")
BindArgs(p) ==
    [recipient |-> p.recipient,
     message |-> p.message,
     channel |-> IF "channel" \in DOMAIN p THEN p.channel ELSE "email"]

\* fault: the payload is built without its channel field
payload_DropsChannel(args) ==
    [recipient |-> args.recipient, message |-> args.message]

\* line 9
payload(args) ==
    [recipient |-> args.recipient, message |-> args.message,
     channel |-> args.channel]

\* line 10: the request requests.post issues
PostRequest(args) == [url |-> API_URL, json |-> payload(args)]

\* response bodies the service (or a proxy in front of it) may send
BodyTexts ==
    {"{\"status\": \"Notification sent\"}", "{\"status\":\"ok\"}",
     "{\"status\": \"ok\"}", "{\"error\": \"unknown recipient\"}", "null",
     "<html>Bad Gateway</html>", ""}

StatusCodes == {200, 202, 400, 404, 500, 502}

\* what requests.post may return: any status is returned, none raises
Responses == [status_code : StatusCodes, text : BodyTexts]

\* whether json.loads accepts the text
IsJson(text) == text \notin {"<html>Bad Gateway</html>", ""}

\* json.loads(text) for the texts it accepts
JsonValue(text) ==
    CASE text = "{\"status\": \"Notification sent\"}" -> [status |-> "Notification sent"]
      [] text = "{\"status\":\"ok\"}" -> [status |-> "ok"]
      [] text = "{\"status\": \"ok\"}" -> [status |-> "ok"]
      [] text = "{\"error\": \"unknown recipient\"}" -> [error |-> "unknown recipient"]
      [] text = "null" -> None

---------------------------------------------------------------------------
(* The script, lines 38-44 *)

\* the state after the module-level definitions of lines 1-35
Init ==
    /\ convo = conversation
    /\ functions = Registry
    /\ extracted = None
    /\ results = <<>>
    /\ pc = "parse"
    /\ calls = <<>>
    /\ posts = <<>>
    /\ replies = <<>>
    /\ result = None
    /\ stdout = <<>>
    /\ error = NoError

\* line 38
Parse ==
    /\ pc = "parse"
    /\ extracted' = parse_conversation(convo)
    /\ pc' = "validate"
    /\ UNCHANGED <<convo, functions, results, calls, posts, replies, result,
                   stdout, error>>

\* fault: `and` in place of `or`, an absent descriptor passes
Invalid_And(d, reg) ==
    IF d = None THEN FALSE ELSE d.functionName \notin DOMAIN reg

\* fault: the registry membership test is left out
Invalid_NoneOnly(d, reg) == d = None

\* the condition of line 39; `or` evaluates its right side only for a descriptor
Invalid(d, reg) ==
    IF d = None THEN TRUE ELSE d.functionName \notin DOMAIN reg

\* the exception lines 39-40 raise for descriptor d, NoError when they raise none
Raised(d, reg) == IF Invalid(d, reg) THEN ValueError ELSE NoError

\* lines 39-40
Validate ==
    /\ pc = "validate"
    /\ IF Raised(extracted, functions) # NoError
       THEN /\ pc' = "error"
            /\ error' = Raised(extracted, functions)
       ELSE /\ pc' = "dispatch"
            /\ error' = error
    /\ UNCHANGED <<convo, functions, extracted, results, calls, posts,
                   replies, result, stdout>>

\* fault: the descriptor's channel is not passed on, the default is used
Dispatch_IgnoresChannel ==
    /\ pc = "dispatch"
    /\ calls' = Append(calls, [callee |-> functions[extracted.functionName],
                               args |-> [recipient |-> extracted.parameters.recipient,
                                         message |-> extracted.parameters.message,
                                         channel |-> "email"],
                               returned |-> None])
    /\ pc' = "post"
    /\ UNCHANGED <<convo, functions, extracted, results, posts, replies,
                   result, stdout, error>>

\* fault: the callable is taken out of the registry (functions.pop) when called
Dispatch_Pops ==
    /\ pc = "dispatch"
    /\ calls' = Append(calls, [callee |-> functions[extracted.functionName],
                               args |-> BindArgs(extracted.parameters),
                               returned |-> None])
    /\ functions' = [n \in DOMAIN functions \ {extracted.functionName} |-> functions[n]]
    /\ pc' = "post"
    /\ UNCHANGED <<convo, extracted, results, posts, replies, result, stdout,
                   error>>

\* line 43, the call: registry lookup and entry into the callable
Dispatch ==
    /\ pc = "dispatch"
    /\ calls' = Append(calls, [callee |-> functions[extracted.functionName],
                               args |-> BindArgs(extracted.parameters),
                               returned |-> None])
    /\ pc' = "post"
    /\ UNCHANGED <<convo, functions, extracted, results, posts, replies,
                   result, stdout, error>>

\* lines 9-10: the POST is issued and the network answers
PostOk ==
    /\ pc = "post"
    /\ \E r \in Responses :
        /\ posts' = Append(posts, PostRequest(calls[Len(calls)].args))
        /\ replies' = Append(replies, r)
        /\ pc' = "json"
    /\ UNCHANGED <<convo, functions, extracted, results, calls, result,
                   stdout, error>>

\* fault: a failed POST is caught and sent again
PostRaise_Retry ==
    /\ pc = "post"
    /\ Len(posts) < 2
    /\ posts' = Append(posts, PostRequest(calls[Len(calls)].args))
    /\ UNCHANGED <<convo, functions, extracted, results, pc, calls, replies,
                   result, stdout, error>>

\* lines 9-10: the POST is issued and requests.post raises
PostRaise ==
    /\ pc = "post"
    /\ posts' = Append(posts, PostRequest(calls[Len(calls)].args))
    /\ pc' = "error"
    /\ error' = ConnectionError
    /\ UNCHANGED <<convo, functions, extracted, results, calls, replies,
                   result, stdout>>

\* line 11: the callable returns response.json(), or response.json() raises;
\* line 43 assigns what the callable returned to `result`
Json ==
    /\ pc = "json"
    /\ LET text == replies[Len(replies)].text
       IN  IF IsJson(text)
           THEN /\ calls' = [calls EXCEPT ![Len(calls)].returned = JsonValue(text)]
                /\ result' = calls'[Len(calls)].returned
                /\ pc' = "print"
                /\ error' = error
           ELSE /\ calls' = calls
                /\ result' = result
                /\ pc' = "error"
                /\ error' = JSONDecodeError
    /\ UNCHANGED <<convo, functions, extracted, results, posts, replies,
                   stdout>>

\* line 44
PrintResult ==
    /\ pc = "print"
    /\ stdout' = Append(stdout, result)
    /\ pc' = "done"
    /\ UNCHANGED <<convo, functions, extracted, results, calls, posts,
                   replies, result, error>>

Next == Parse \/ Validate \/ Dispatch \/ PostOk \/ PostRaise \/ Json \/ PrintResult

Spec == Init /\ [][Next]_vars

---------------------------------------------------------------------------
(* parse_conversation called directly, on any transcript *)

Fragments ==
    {notify,
     <<"N", "o", "t", "i", "f", "y">>,
     <<"N", "O", "T", "I", "F", "Y">>,
     DevOps,
     <<"d", "e", "v", "o", "p", "s">>,
     <<"n", "o", "t">>,
     <<"i", "f", "y">>,
     <<"D", "e", "v">>,
     <<"O", "p", "s">>,
     <<" ">>}

\* RECURSIVE concatenation of a sequence of fragments
RECURSIVE Concat(_)
Concat(fs) ==
    IF fs = <<>> THEN <<>> ELSE Head(fs) \o Concat(Tail(fs))

\* the transcripts tried: every concatenation of at most MaxFrags fragments,
\* and the script's own transcript
Transcripts ==
    {Concat(fs) : fs \in UNION {[1..n -> Fragments] : n \in 0..MaxFrags}}
    \cup {conversation}

InitParser ==
    /\ convo \in Transcripts
    /\ functions = Registry
    /\ extracted = None
    /\ results = <<>>
    /\ pc = "parser"
    /\ calls = <<>>
    /\ posts = <<>>
    /\ replies = <<>>
    /\ result = None
    /\ stdout = <<>>
    /\ error = NoError

\* fault: the parser keeps the lowered transcript in place of the transcript
ParseCall_LowersInPlace ==
    /\ pc = "parser"
    /\ Len(results) < MaxCalls
    /\ results' = Append(results, parse_conversation(convo))
    /\ convo' = lower(convo)
    /\ UNCHANGED <<functions, extracted, pc, calls, posts, replies, result,
                   stdout, error>>

\* one call parse_conversation(convo), lines 23-35; its return value is recorded
ParseCall ==
    /\ pc = "parser"
    /\ Len(results) < MaxCalls
    /\ results' = Append(results, parse_conversation(convo))
    /\ UNCHANGED <<convo, functions, extracted, pc, calls, posts, replies,
                   result, stdout, error>>

NextParser == ParseCall

SpecParser == InitParser /\ [][NextParser]_vars

---------------------------------------------------------------------------
(* Validation and dispatch, lines 39-44, on any descriptor *)

FunctionNames == {"sendNotification", "sendSMS"}

\* keyword arguments sendNotification accepts: channel may be left out
ParameterSets ==
    [recipient : {"DevOps", "QA"},
     message : {"Urgent: Meeting at 10 AM tomorrow", "Build failed"}]
    \cup
    [recipient : {"DevOps", "QA"},
     message : {"Urgent: Meeting at 10 AM tomorrow", "Build failed"},
     channel : {"email", "sms"}]

Descriptors == [functionName : FunctionNames, parameters : ParameterSets]

\* the state before line 39, for any value of `extracted`
InitDispatch ==
    /\ convo = conversation
    /\ functions = Registry
    /\ extracted \in Descriptors \cup {None}
    /\ results = <<>>
    /\ pc = "validate"
    /\ calls = <<>>
    /\ posts = <<>>
    /\ replies = <<>>
    /\ result = None
    /\ stdout = <<>>
    /\ error = NoError

NextDispatch == Validate \/ Dispatch \/ PostOk \/ PostRaise \/ Json \/ PrintResult

SpecDispatch == InitDispatch /\ [][NextDispatch]_vars

\* the script with the interpreter taking every step it can; the network is
\* not obliged to answer (requests.post is given no timeout)
Progress ==
    /\ WF_vars(Parse)
    /\ WF_vars(Validate)
    /\ WF_vars(Dispatch)
    /\ WF_vars(Json)
    /\ WF_vars(PrintResult)

FairSpec == Spec /\ Progress

---------------------------------------------------------------------------
(* Properties of parse_conversation, checked under SpecParser *)

\* the letter c in either case
CaseVariants(c) ==
    {c} \cup {UpperLetters[k] : k \in {i \in 1..Len(LowerLetters) : LowerLetters[i] = c}}

\* s holds the word "notify" at some place, each letter in either case
MentionsNotify(s) ==
    \E i \in 1..Len(s) :
        /\ i + 5 <= Len(s)
        /\ \A j \in 1..6 : s[i + j - 1] \in CaseVariants(notify[j])

\* s holds the word "DevOps" at some place, in exactly that case
MentionsDevOps(s) ==
    \E i \in 1..Len(s) :
        /\ i + 5 <= Len(s)
        /\ \A j \in 1..6 : s[i + j - 1] = DevOps[j]

\* the descriptor of the example transcript
ExampleDescriptor ==
    [functionName |-> "sendNotification",
     parameters |-> [recipient |-> "DevOps",
                     message |-> "Urgent: Meeting at 10 AM tomorrow",
                     channel |-> "email"]]

\* C1: for every transcript that holds "notify" in any letter case and
\* "DevOps" in exactly that case, whatever else it holds, every call of
\* parse_conversation returns the descriptor sendNotification(recipient =
\* "DevOps", message = "Urgent: Meeting at 10 AM tomorrow", channel = "email").
C1_ParserMatch ==
    (MentionsNotify(convo) /\ MentionsDevOps(convo)) =>
        \A i \in DOMAIN results : results[i] = ExampleDescriptor

\* C1 happens: "NOTIFY" in capitals, "DevOps" and more text, parsed
C1_Witness ==
    /\ Len(results) >= 1
    /\ Contains(<<"N", "O", "T", "I", "F", "Y">>, convo)
    /\ ~Contains(notify, convo)
    /\ MentionsDevOps(convo)
    /\ Len(convo) > Len(notify) + Len(DevOps)
    /\ results[1] = ExampleDescriptor

\* C2: for every transcript that lacks "notify" in any letter case, or lacks
\* "DevOps" in exactly that case, every call of parse_conversation returns
\* None, and no exception is raised.
C2_ParserNoMatch ==
    ~(MentionsNotify(convo) /\ MentionsDevOps(convo)) =>
        /\ \A i \in DOMAIN results : results[i] = None
        /\ error = NoError

\* C2 happens: "notify" and only a lower-case "devops", parsed to None
C2_Witness ==
    /\ Len(results) >= 1
    /\ MentionsNotify(convo)
    /\ Contains(lower(DevOps), convo)
    /\ ~MentionsDevOps(convo)
    /\ results[1] = None

---------------------------------------------------------------------------
(* Properties of validation and dispatch, checked under SpecDispatch *)

\* the descriptor names a callable of the registry
Registered(d) ==
    IF d = None THEN FALSE ELSE d.functionName \in DOMAIN functions

\* the descriptors whose function name the registry does not hold
UnknownDescriptors == {d \in Descriptors : d.functionName \notin DOMAIN functions}

\* C3 as stated: dispatch on an absent descriptor fails, with an error that
\* is not the error raised for a function name the registry does not hold,
\* before any callable is called and any request is sent.
C3_Original ==
    (extracted = None /\ pc # "validate") =>
        /\ pc = "error"
        /\ error # NoError
        /\ \A d \in UnknownDescriptors : error # Raised(d, functions)
        /\ calls = <<>>
        /\ posts = <<>>

\* C3 amended: dispatch on an absent descriptor fails with ValueError
\* "Invalid function or parsing failed", the very error raised for a function
\* name the registry does not hold, before any callable is called and any
\* request is sent, and nothing is printed.
C3_AbsentDescriptor ==
    (extracted = None /\ pc # "validate") =>
        /\ pc = "error"
        /\ error.type = "ValueError"
        /\ error.msg = "Invalid function or parsing failed"
        /\ \A d \in UnknownDescriptors : error = Raised(d, functions)
        /\ calls = <<>>
        /\ posts = <<>>
        /\ stdout = <<>>

\* C3 happens: validation has run on an absent descriptor
C3_Witness ==
    /\ extracted = None
    /\ pc = "error"
    /\ error = ValueError

\* C4: dispatch on a descriptor whose function name is not a key of the
\* registry fails with the validation error and no request is sent; a callable
\* is invoked only when the function name is a key of the registry.
C4_UnknownFunction ==
    /\ (extracted # None /\ ~Registered(extracted) /\ pc # "validate") =>
            /\ pc = "error"
            /\ error.type = "ValueError"
            /\ posts = <<>>
            /\ replies = <<>>
            /\ calls = <<>>
    /\ (calls # <<>> \/ posts # <<>>) => Registered(extracted)

\* C4 happens: validation has run on a descriptor that names sendSMS
C4_Witness ==
    /\ extracted # None
    /\ extracted.functionName = "sendSMS"
    /\ pc = "error"
    /\ error = ValueError
    /\ posts = <<>>

\* the keyword arguments of descriptor d, as the callable receives them
NamedArguments(d, args) ==
    \A k \in DOMAIN d.parameters : k \in DOMAIN args /\ args[k] = d.parameters[k]

\* C5: for a descriptor that names a registered function, the registered
\* callable is invoked exactly once, with the descriptor's parameters as named
\* arguments, and `result` (and what is printed) is what the callable returned.
C5_DispatchOnce ==
    Registered(extracted) =>
        /\ Len(calls) <= 1
        /\ pc \notin {"validate", "dispatch"} =>
                /\ Len(calls) = 1
                /\ calls[1].callee = functions[extracted.functionName]
                /\ NamedArguments(extracted, calls[1].args)
        /\ pc \in {"print", "done"} => result = calls[1].returned
        /\ pc = "done" => stdout = <<calls[1].returned>>
        /\ pc # "done" => stdout = <<>>

\* C5 happens: the example descriptor dispatched, the service answered
\* {"status":"ok"}, and that is the result
C5_Witness ==
    /\ extracted = ExampleDescriptor
    /\ pc = "done"
    /\ Len(calls) = 1
    /\ calls[1].args = [recipient |-> "DevOps",
                        message |-> "Urgent: Meeting at 10 AM tomorrow",
                        channel |-> "email"]
    /\ calls[1].returned = [status |-> "ok"]
    /\ result = [status |-> "ok"]

\* the channel the caller gave, "email" when it gave none
GivenChannel(d) ==
    IF "channel" \in DOMAIN d.parameters THEN d.parameters.channel ELSE "email"

\* line 10 of call i has run
Posted(i) ==
    i < Len(calls) \/ pc \in {"json", "print", "done"}
      \/ (pc = "error" /\ error # ValueError)

\* C6: each call of sendNotification issues exactly one POST, to API_URL,
\* whose JSON body has exactly the fields recipient, message and channel, equal
\* to the arguments (channel "email" when left out); when it returns, it
\* returns the parsed body of the response to that POST.
C6_SenderPost ==
    /\ Len(posts) <= Len(calls)
    /\ Len(replies) <= Len(posts)
    /\ \A i \in DOMAIN calls : Posted(i) => i \in DOMAIN posts
    /\ \A i \in DOMAIN posts :
        /\ posts[i].url = "https://api.rester.example/notify"
        /\ DOMAIN posts[i].json = {"recipient", "message", "channel"}
        /\ posts[i].json.recipient = extracted.parameters.recipient
        /\ posts[i].json.message = extracted.parameters.message
        /\ posts[i].json.channel = GivenChannel(extracted)
    /\ pc \in {"print", "done"} =>
        /\ Len(replies) = 1
        /\ IsJson(replies[1].text)
        /\ calls[1].returned = JsonValue(replies[1].text)

\* C6 happens: a call without channel has posted with channel "email" and
\* returned the parsed body of a 500 response
C6_Witness ==
    /\ extracted # None
    /\ "channel" \notin DOMAIN extracted.parameters
    /\ pc = "print"
    /\ Len(posts) = 1
    /\ posts[1].json.channel = "email"
    /\ replies[1].status_code = 500
    /\ calls[1].returned = [error |-> "unknown recipient"]

\* C7: an invalid intent, an unknown function and a failure of the sender
\* each end the run in the error state with the exception kept: nothing is
\* printed, at most one POST has been issued, no step follows, and a run that
\* is not in the error state holds no exception.
C7_ErrorsFatal ==
    /\ [](pc = "error" =>
            /\ error \in {ValueError, ConnectionError, JSONDecodeError}
            /\ stdout = <<>>
            /\ Len(posts) <= 1)
    /\ [](Len(posts) <= 1)
    /\ [](pc # "error" => error = NoError)
    /\ [][pc # "error"]_vars

\* C7 happens: the POST failed, once, and the run is in the error state
C7_Witness ==
    /\ pc = "error"
    /\ error = ConnectionError
    /\ Len(posts) = 1
    /\ replies = <<>>

---------------------------------------------------------------------------
(* Properties of the script run, checked under Spec and FairSpec *)

\* C9: in every state of a run the registry is exactly the mapping
\* {"sendNotification" -> sendNotification} it was given at line 13.
C9_RegistryFixed ==
    /\ DOMAIN functions = {"sendNotification"}
    /\ functions["sendNotification"] = "sendNotification"

\* C9 happens: the run went through parsing, validation, the registry lookup,
\* the sender and printing, with the registry as it was
C9_Witness ==
    /\ pc = "done"
    /\ Len(calls) = 1
    /\ calls[1].callee = "sendNotification"
    /\ DOMAIN functions = {"sendNotification"}

\* the steps of the script in their order
StepOrder ==
    {<<"parse", "validate">>, <<"validate", "dispatch">>, <<"dispatch", "post">>,
     <<"post", "json">>, <<"json", "print">>, <<"print", "done">>,
     <<"post", "error">>, <<"json", "error">>}

\* a step of the script follows the order of its statements
InOrder == (<<pc, pc'>>) \in StepOrder

\* what every state of the script's run on its own transcript satisfies:
\* validation does not fail, no POST before validation has passed, one sender
\* invocation and one POST at most, printing only of the parsed response
RunSafety ==
    /\ convo = conversation
    /\ error # ValueError
    /\ pc \notin {"parse", "validate"} => ~Invalid(extracted, functions)
    /\ pc \in {"parse", "validate", "dispatch"} => calls = <<>>
    /\ pc \in {"parse", "validate", "dispatch", "post"} => posts = <<>>
    /\ Len(calls) <= 1
    /\ Len(posts) <= 1
    /\ Len(stdout) <= 1
    /\ stdout # <<>> =>
        /\ pc = "done"
        /\ Len(replies) = 1
        /\ stdout = <<JsonValue(replies[1].text)>>

\* the run has ended
Terminated == pc \in {"done", "error"}

\* C10 as stated, for the runs that have ended: the steps come in the order
\* parse, validate, lookup, one sender invocation, print; and a run in which
\* the POST returned a response has printed the result exactly once.
C10_Original ==
    /\ RunSafety
    /\ (Terminated /\ replies # <<>>) => (pc = "done" /\ Len(stdout) = 1)

\* C10 amended: the steps come in the order parse, validate, lookup, one
\* sender invocation, print; validation passes; no POST before validation has
\* passed; and provided the POST returns a response whose body parses as JSON,
\* the result is eventually printed, exactly once, after the POST returned,
\* and the run ends there.
C10_RunToCompletion ==
    /\ []RunSafety
    /\ [][InOrder]_vars
    /\ [](pc = "parse" => <>(pc = "post"))
    /\ []((replies # <<>> /\ IsJson(replies[1].text)) =>
            <>(pc = "done" /\ stdout = <<JsonValue(replies[1].text)>>))
    /\ [](pc = "done" => [](pc = "done" /\ Len(stdout) = 1))

\* C10 happens: the script's transcript was parsed, validated, dispatched,
\* the POST returned {"status": "Notification sent"} and it was printed
C10_Witness ==
    /\ convo = conversation
    /\ extracted = ExampleDescriptor
    /\ pc = "done"
    /\ Len(posts) = 1
    /\ stdout = <<[status |-> "Notification sent"]>>

=============================================================================
